---- MODULE Spec2Model ----
(***************************************************************************)
(* Risk-scoring engine of aptashboard: the HTTP fraud handler               *)
(* (api/fraud-detection.py), FraudDetector (ml_services/fraud_detector.py), *)
(* the Flask route (ml_app.py) and the CLI (ml_cli.py).                     *)
(*                                                                         *)
(* Fixed point: a score s is the integer s * 10^5 (1.0 = 100000), an amount *)
(* a is the integer a * 10^4 (0.0001 = 1), times are whole seconds.  Sums   *)
(* are exact decimals; the sub-ulp error of binary floating point is not    *)
(* represented.                                                             *)
(***************************************************************************)
EXTENDS Integers, Sequences, FiniteSets, TLC

VARIABLES
    proc,           \* the deployment this behaviour follows: "api", "flask" or "cli"
    now,            \* time.time(), whole seconds
    ML_AVAILABLE,   \* api/fraud-detection.py: numpy and sklearn imported
    trained,        \* fraud_detector.trained of ml_app.py
    fitted,         \* which of scaler / anomaly_model / classification_model are fitted
    pc,             \* "idle": no request in progress; "done": response written
    call,           \* the request being answered
    result,         \* the response record
    threads,        \* ml_app.py serving requests in threads: where each thread is
    det             \* which fit each part of the shared fraud_detector comes from

vars == <<proc, now, ML_AVAILABLE, trained, fitted, pc, call, result, threads, det>>

-----------------------------------------------------------------------------
(* JSON values as they arrive from json.loads / data.get *)

JStr(s) == [kind |-> "str", num |-> 0, str |-> s]
JNum(n) == [kind |-> "num", num |-> n, str |-> <<>>]
JNull == [kind |-> "null", num |-> 0, str |-> <<>>]
JAbsent == [kind |-> "absent", num |-> 0, str |-> <<>>]

\* data.get(key, default)
Get(v, default) == IF v.kind = "absent" THEN default ELSE v

\* Python truthiness of a JSON value
Truthy(v) ==
    CASE v.kind = "num" -> v.num # 0
      [] v.kind = "str" -> Len(v.str) > 0
      [] OTHER -> FALSE

Digits == <<"0", "1", "2", "3", "4", "5", "6", "7", "8", "9">>

IsDigit(c) == \E d \in 1..10 : Digits[d] = c

DigitOf(c) == (CHOOSE d \in 1..10 : Digits[d] = c) - 1

RECURSIVE DigitsValue(_)
DigitsValue(s) ==
    IF Len(s) = 0 THEN 0
    ELSE 10 * DigitsValue(SubSeq(s, 1, Len(s) - 1)) + DigitOf(s[Len(s)])

\* float(x), in amount units (10^-4): ok = FALSE stands for ValueError / TypeError
ToFloat(v) ==
    CASE v.kind = "num" -> [ok |-> TRUE, val |-> v.num]
      [] v.kind = "str" ->
            IF Len(v.str) > 0 /\ \A i \in 1..Len(v.str) : IsDigit(v.str[i])
            THEN [ok |-> TRUE, val |-> DigitsValue(v.str) * 10000]
            ELSE [ok |-> FALSE, val |-> 0]
      [] OTHER -> [ok |-> FALSE, val |-> 0]

-----------------------------------------------------------------------------
(* Scores, thresholds and rule weights of api/fraud-detection.py *)

One == 100000
VeryHighAmount == 1000000000
HighAmount == 100000000
MicroAmount == 10
W_very_high_amount == 40000
W_high_amount == 20000
W_micro_transaction == 15000
W_self_transaction == 30000
W_invalid_address_format == 20000
W_suspicious_pattern == 30000
MinAddressLen == 10
MaxDiff == 2
FutureTolerance == 300
StaleWindow == 2592000
DaySeconds == 86400
HourSeconds == 3600
NightBefore == 5
NightAfter == 23
R_future == 30000
R_stale == 20000
R_night == 10000
TimingReport == 10000
MlReport == 70000
T_suspicious == 60000
\* a high-risk threshold below the suspicious one
T_high_risk_below == T_suspicious - 10000
T_high_risk == 80000
ErrorScore == 50000

Min(a, b) == IF a < b THEN a ELSE b
Max(a, b) == IF a > b THEN a ELSE b

\* the clamp without its upper limit
Clamp_lower_only(x) == IF x < 0 THEN 0 ELSE x

\* min(1.0, max(0.0, risk_score))
Clamp(x) == Min(One, Max(0, x))

\* round(x, 3): nearest multiple of 10^-3, ties to even
Round3(x) ==
    LET q == x \div 100
        r == x % 100
    IN  IF r < 50 THEN q * 100
        ELSE IF r > 50 THEN (q + 1) * 100
        ELSE IF q % 2 = 0 THEN q * 100 ELSE (q + 1) * 100

\* the round numbers of _check_suspicious_patterns
RoundAmounts == {10000000, 50000000, 100000000, 500000000, 1000000000}

CharSet(s) == {s[i] : i \in 1..Len(s)}

\* the positions compared against the other address read backwards
DiffCount_reversed(s, r) ==
    Cardinality({i \in 1..Min(Len(s), Len(r)) : s[i] # r[Len(r) + 1 - i]})

DiffCount(s, r) == Cardinality({i \in 1..Min(Len(s), Len(r)) : s[i] # r[i]})

\* the similarity test asking for at least one differing position
check_suspicious_patterns_distinct(sender, recipient, amount) ==
    IF amount \in RoundAmounts THEN TRUE
    ELSE IF sender.kind # "str" \/ recipient.kind # "str" THEN FALSE
    ELSE IF 3 * Cardinality(CharSet(sender.str)) < Len(sender.str)
            \/ 3 * Cardinality(CharSet(recipient.str)) < Len(recipient.str) THEN TRUE
    ELSE IF Len(sender.str) = Len(recipient.str)
            /\ DiffCount(sender.str, recipient.str) <= MaxDiff
            /\ DiffCount(sender.str, recipient.str) >= 1 THEN TRUE
    ELSE FALSE

\* the diversity test with <= in place of <
check_suspicious_patterns_le(sender, recipient, amount) ==
    IF amount \in RoundAmounts THEN TRUE
    ELSE IF sender.kind # "str" \/ recipient.kind # "str" THEN FALSE
    ELSE IF 3 * Cardinality(CharSet(sender.str)) <= Len(sender.str)
            \/ 3 * Cardinality(CharSet(recipient.str)) <= Len(recipient.str) THEN TRUE
    ELSE IF Len(sender.str) = Len(recipient.str)
            /\ DiffCount(sender.str, recipient.str) <= MaxDiff THEN TRUE
    ELSE FALSE

\* handler._check_suspicious_patterns; a non-string argument raises inside the
\* try and the bare except returns False
check_suspicious_patterns(sender, recipient, amount) ==
    IF amount \in RoundAmounts THEN TRUE
    ELSE IF sender.kind # "str" \/ recipient.kind # "str" THEN FALSE
    ELSE IF 3 * Cardinality(CharSet(sender.str)) < Len(sender.str)
            \/ 3 * Cardinality(CharSet(recipient.str)) < Len(recipient.str) THEN TRUE
    ELSE IF Len(sender.str) = Len(recipient.str)
            /\ DiffCount(sender.str, recipient.str) <= MaxDiff THEN TRUE
    ELSE FALSE

\* the night hour tested before the staleness window
analyze_timing_night_first(timestamp, current_time) ==
    IF timestamp.kind # "num" THEN 0
    ELSE IF timestamp.num > current_time + FutureTolerance THEN R_future
    ELSE LET hour == (timestamp.num % DaySeconds) \div HourSeconds
         IN  IF hour < NightBefore \/ hour > NightAfter THEN R_night
             ELSE IF current_time - timestamp.num > StaleWindow THEN R_stale
             ELSE 0

\* the future test with a tolerance of 500 seconds
analyze_timing_tolerance(timestamp, current_time) ==
    IF timestamp.kind # "num" THEN 0
    ELSE IF timestamp.num > current_time + 500 THEN R_future
    ELSE IF current_time - timestamp.num > StaleWindow THEN R_stale
    ELSE LET hour == (timestamp.num % DaySeconds) \div HourSeconds
         IN  IF hour < NightBefore \/ hour > NightAfter THEN R_night ELSE 0

\* handler._analyze_timing; comparing a non-number with the clock raises and
\* the bare except returns 0.0
analyze_timing(timestamp, current_time) ==
    IF timestamp.kind # "num" THEN 0
    ELSE IF timestamp.num > current_time + FutureTolerance THEN R_future
    ELSE IF current_time - timestamp.num > StaleWindow THEN R_stale
    ELSE LET hour == (timestamp.num % DaySeconds) \div HourSeconds
         IN  IF hour < NightBefore \/ hour > NightAfter THEN R_night ELSE 0

\* handler._ml_fraud_detection fits a fresh IsolationForest on 100 random
\* rows before it scores, whenever the libraries are there
ml_fits(mlAvailable) == IF mlAvailable THEN 1 ELSE 0

\* handler._ml_fraud_detection: sig is what IsolationForest.decision_function
\* does on this input (it raises, or returns anomaly in thousandths)
ml_fraud_detection(mlAvailable, sig) ==
    IF ~mlAvailable THEN 0
    ELSE IF sig.fail THEN 0
    ELSE Max(0, Min(One, ((1000 - sig.anomaly) * 100) \div 2))

-----------------------------------------------------------------------------
(* Response records.  keys is the set of fields the JSON object has; a field *)
(* outside keys holds a filler.  pre, clamped, time_risk and ml_risk are the *)
(* values of the locals of the same role when the record was built; http is  *)
(* the status code of the response that carries the record.                *)

SuccessKeys == {"risk_score", "is_suspicious", "is_high_risk", "risk_factors",
                "confidence", "model", "status", "analysis"}

ErrorKeys == {"error", "risk_score", "is_suspicious", "status"}

\* fits is the number of model fits carried out while the request was
\* answered; is_fraud, fee and factors are the fields of api/predict.py;
\* printed is the number of JSON objects a CLI run wrote to stdout and
\* printed_keys the fields of the object written
Record(status, keys, score, susp, high, factors, conf, model, pre, clamped, tr, ml) ==
    [status |-> status, keys |-> keys, risk_score |-> score,
     is_suspicious |-> susp, is_high_risk |-> high, risk_factors |-> factors,
     confidence |-> conf, model |-> model,
     pre |-> pre, clamped |-> clamped, time_risk |-> tr, ml_risk |-> ml,
     http |-> 200, fits |-> 0, is_fraud |-> FALSE, fee |-> 0,
     printed |-> 0, printed_keys |-> {},
     factors |-> [amount_factor |-> 0, congestion_factor |-> 0]]

ErrorRecord(keys, score, model) ==
    Record("error", keys, score, FALSE, FALSE, <<>>, 0, model, 0, 0, 0, 0)

NoResult == Record("none", {}, 0, FALSE, FALSE, <<>>, 0, "", 0, 0, 0, 0)

\* the top tier starting at 100000 itself
AmountTier_ge(amount) ==
    IF amount >= VeryHighAmount THEN <<W_very_high_amount, <<"very_high_amount">>>>
    ELSE IF amount > HighAmount THEN <<W_high_amount, <<"high_amount">>>>
    ELSE IF amount < MicroAmount THEN <<W_micro_transaction, <<"micro_transaction">>>>
    ELSE <<0, <<>>>>

\* the two upper tiers with their weights exchanged
AmountTier_swapped(amount) ==
    IF amount > VeryHighAmount THEN <<W_high_amount, <<"very_high_amount">>>>
    ELSE IF amount > HighAmount THEN <<W_very_high_amount, <<"high_amount">>>>
    ELSE IF amount < MicroAmount THEN <<W_micro_transaction, <<"micro_transaction">>>>
    ELSE <<0, <<>>>>

\* the amount tier of handler.analyze_transaction: <<delta, codes>>
AmountTier(amount) ==
    IF amount > VeryHighAmount THEN <<W_very_high_amount, <<"very_high_amount">>>>
    ELSE IF amount > HighAmount THEN <<W_high_amount, <<"high_amount">>>>
    ELSE IF amount < MicroAmount THEN <<W_micro_transaction, <<"micro_transaction">>>>
    ELSE <<0, <<>>>>

\* the self-transaction rule never firing
SelfRule_off(sender, recipient) == <<0, <<>>>>

SelfRule(sender, recipient) ==
    IF sender = recipient THEN <<W_self_transaction, <<"self_transaction">>>>
    ELSE <<0, <<>>>>

\* the format rule reporting once per short address
FormatRule_each(sender, recipient) ==
    <<IF Len(sender.str) < MinAddressLen \/ Len(recipient.str) < MinAddressLen
      THEN W_invalid_address_format ELSE 0,
      (IF Len(sender.str) < MinAddressLen THEN <<"invalid_address_format">> ELSE <<>>)
      \o (IF Len(recipient.str) < MinAddressLen THEN <<"invalid_address_format">> ELSE <<>>)>>

FormatRule(sender, recipient) ==
    IF Len(sender.str) < MinAddressLen \/ Len(recipient.str) < MinAddressLen
    THEN <<W_invalid_address_format, <<"invalid_address_format">>>>
    ELSE <<0, <<>>>>

PatternRule(sender, recipient, amount) ==
    IF check_suspicious_patterns(sender, recipient, amount)
    THEN <<W_suspicious_pattern, <<"suspicious_pattern">>>>
    ELSE <<0, <<>>>>

\* the timing rule without the guard on an unknown timestamp
TimingRule_unguarded(timestamp, current_time) ==
    LET time_risk == analyze_timing(timestamp, current_time)
    IN  <<time_risk, IF time_risk > TimingReport THEN <<"unusual_timing">> ELSE <<>>>>

TimingRule(timestamp, current_time) ==
    IF Truthy(timestamp)
    THEN LET time_risk == analyze_timing(timestamp, current_time)
         IN  <<time_risk, IF time_risk > TimingReport THEN <<"unusual_timing">> ELSE <<>>>>
    ELSE <<0, <<>>>>

\* the statistical term weighted without the clip to [0, 1]
MlRule_unclipped(mlAvailable, sig) ==
    IF mlAvailable
    THEN LET ml_risk == ml_fraud_detection(mlAvailable, sig)
         IN  <<IF sig.fail THEN 0 ELSE (1000 - sig.anomaly) * 15,
               IF ml_risk > MlReport THEN <<"ml_anomaly_detected">> ELSE <<>>>>
    ELSE <<0, <<>>>>

MlRule(mlAvailable, sig) ==
    IF mlAvailable
    THEN LET ml_risk == ml_fraud_detection(mlAvailable, sig)
         IN  <<(ml_risk * 3) \div 10,
               IF ml_risk > MlReport THEN <<"ml_anomaly_detected">> ELSE <<>>>>
    ELSE <<0, <<>>>>

\* handler.analyze_transaction.  len() of a sender or recipient that is not a
\* string raises TypeError (at the format rule, the ML call or the analysis
\* block, whichever evaluates it first), which the outer except turns into
\* the error record.
handler_analyze_transaction(sender, recipient, amount_in, timestamp, current_time, mlAvailable, sig) ==
    IF sender.kind # "str" \/ recipient.kind # "str"
    THEN ErrorRecord(ErrorKeys, ErrorScore, "")
    ELSE
    LET f == ToFloat(amount_in)
        amount == IF f.ok THEN f.val ELSE 0
        a == AmountTier(amount)
        s == SelfRule(sender, recipient)
        m == FormatRule(sender, recipient)
        p == PatternRule(sender, recipient, amount)
        t == TimingRule(timestamp, current_time)
        l == MlRule(mlAvailable, sig)
        pre == a[1] + s[1] + m[1] + p[1] + t[1] + l[1]
        risk_score == Clamp(pre)
    IN  [Record("success", SuccessKeys, Round3(risk_score),
                risk_score > T_suspicious, risk_score > T_high_risk,
                a[2] \o s[2] \o m[2] \o p[2] \o t[2] \o l[2],
                IF mlAvailable THEN 85 ELSE 70,
                IF mlAvailable THEN "hybrid_detection" ELSE "rule_based",
                pre, risk_score, t[1], ml_fraud_detection(mlAvailable, sig))
            EXCEPT !.fits = ml_fits(mlAvailable)]

\* handler.do_POST: a body that is not a JSON object raises before the
\* analysis; missing fields take the defaults of data.get
handler_do_POST(bodyOk, data, current_time, mlAvailable, sig) ==
    IF ~bodyOk THEN ErrorRecord({"error", "status", "risk_score", "is_suspicious"}, ErrorScore, "")
    ELSE handler_analyze_transaction(Get(data.sender, JStr(<<>>)), Get(data.recipient, JStr(<<>>)),
                                     Get(data.amount, JNum(0)), Get(data.timestamp, JNum(0)),
                                     current_time, mlAvailable, sig)

-----------------------------------------------------------------------------
(* FraudDetector (ml_services/fraud_detector.py) *)

RECURSIVE NatDigits(_)
NatDigits(n) ==
    IF n < 10 THEN <<Digits[n + 1]>>
    ELSE Append(NatDigits(n \div 10), Digits[(n % 10) + 1])

\* str(x)
ToStr(v) ==
    CASE v.kind = "str" -> v.str
      [] v.kind = "num" -> IF v.num < 0 THEN <<"-">> \o NatDigits(-v.num) ELSE NatDigits(v.num)
      [] OTHER -> <<"N", "o", "n", "e">>

W_classifier == 70
W_anomaly == 15
P_report == 700
DetectorKeys == SuccessKeys \cup {"fraud_probability", "anomaly_score"}

Unfitted == [scaler |-> FALSE, anomaly |-> FALSE, classifier |-> FALSE]
AllFitted == [scaler |-> TRUE, anomaly |-> TRUE, classifier |-> TRUE]

\* FraudDetector.train_model: failAt is the statement that raises ("none":
\* nothing does).  Returns the detector state it leaves behind.
train_model(isTrained, fit, failAt) ==
    CASE failAt = "prepare" -> [trained |-> isTrained, fitted |-> fit, status |-> "error"]
      [] failAt = "anomaly_fit" ->
            [trained |-> isTrained, fitted |-> [fit EXCEPT !.scaler = TRUE], status |-> "error"]
      [] failAt = "classifier_fit" ->
            [trained |-> isTrained,
             fitted |-> [fit EXCEPT !.scaler = TRUE, !.anomaly = TRUE], status |-> "error"]
      [] failAt = "evaluate" -> [trained |-> isTrained, fitted |-> AllFitted, status |-> "error"]
      [] OTHER -> [trained |-> TRUE, fitted |-> AllFitted, status |-> "success"]

\* the fit calls train_model has made when failAt raises
train_fits(failAt) ==
    CASE failAt = "prepare" -> 0
      [] failAt = "anomaly_fit" -> 1
      [] failAt = "classifier_fit" -> 2
      [] OTHER -> 3

\* FraudDetector.load_model.  outcome: "ok" (the three files exist and load),
\* "missing" (a file is absent, or the first load raises), "classifier_raises"
\* (the anomaly model is loaded, then joblib.load raises) or "scaler_raises"
\* (both models are loaded, then joblib.load raises).  A saved object is a
\* fitted one: save_model is called by train_model only, after the fits.
load_model(isTrained, fit, outcome) ==
    CASE outcome = "ok" -> [trained |-> TRUE, fitted |-> AllFitted, ok |-> TRUE]
      [] outcome = "classifier_raises" ->
            [trained |-> isTrained, fitted |-> [fit EXCEPT !.anomaly = TRUE], ok |-> FALSE]
      [] outcome = "scaler_raises" ->
            [trained |-> isTrained,
             fitted |-> [fit EXCEPT !.anomaly = TRUE, !.classifier = TRUE], ok |-> FALSE]
      [] OTHER -> [trained |-> isTrained, fitted |-> fit, ok |-> FALSE]

OldWindow == 604800
DefaultHour == 12
FeatNightBefore == 6
FeatNightAfter == 22

\* str.count(pattern) from position i on: occurrences that do not overlap,
\* scanning from the left
RECURSIVE CountFrom(_, _, _)
CountFrom(s, pattern, i) ==
    IF i + Len(pattern) - 1 > Len(s) THEN 0
    ELSE IF SubSeq(s, i, i + Len(pattern) - 1) = pattern
         THEN 1 + CountFrom(s, pattern, i + Len(pattern))
         ELSE CountFrom(s, pattern, i + 1)

\* FraudDetector._has_repeated_pattern: range(len - 3) and range(len - 5)
\* are the positions 1 .. len - 3 and 1 .. len - 5 counted from 1
has_repeated_pattern(address) ==
    IF Len(address) < 4 THEN 0
    ELSE IF \E i \in 1..(Len(address) - 3) :
                CountFrom(address, SubSeq(address, i, i + 1), 1) >= 3 THEN 1
    ELSE IF \E i \in 1..(Len(address) - 5) :
                address[i] = address[i + 1] /\ address[i + 1] = address[i + 2] THEN 1
    ELSE 0

\* the amounts that FraudDetector.extract_features calls round
FeatureRoundAmounts == {100000, 500000, 1000000, 5000000, 10000000, 50000000, 100000000}

\* the is_round_amount feature of FraudDetector.extract_features
is_round_amount(amount) ==
    LET amount_float == IF Truthy(amount) THEN ToFloat(amount).val ELSE 0
    IN  IF amount_float \in FeatureRoundAmounts THEN 1 ELSE 0

\* the time features of FraudDetector.extract_features, for a numeric timestamp
extract_time_features(timestamp, current_time) ==
    LET ts == timestamp.num
        time_diff == IF ts # 0 THEN current_time - ts ELSE 0
        hour_of_day == IF ts # 0 THEN (ts % DaySeconds) \div HourSeconds ELSE DefaultHour
    IN  [time_diff |-> time_diff,
         is_future |-> IF ts > current_time + FutureTolerance THEN 1 ELSE 0,
         is_old |-> IF time_diff > OldWindow THEN 1 ELSE 0,
         hour_of_day |-> hour_of_day,
         is_night |-> IF hour_of_day < FeatNightBefore \/ hour_of_day > FeatNightAfter THEN 1 ELSE 0]

\* FraudDetector.extract_features raises on an amount that is truthy and not
\* a number, and on a timestamp that cannot be compared with the clock
extract_features_raises(amount, timestamp) ==
    \/ Truthy(amount) /\ ~ToFloat(amount).ok
    \/ timestamp.kind # "num"

\* the two weights exchanged
combine_scores_swapped(fraud_probability, anomaly_score) ==
    30 * fraud_probability + 35 * (1000 - anomaly_score)

\* "Combine scores" of FraudDetector.analyze_transaction, before the clamp:
\* fraud_probability * 0.7 + (1 - (anomaly_score + 1) / 2) * 0.3
combine_scores(fraud_probability, anomaly_score) ==
    W_classifier * fraud_probability + W_anomaly * (1000 - anomaly_score)

\* FraudDetector.analyze_transaction after the lazy training: out is what the
\* fitted models do on this input: they raise (fail), or return the fraud
\* probability p and the anomaly score a, in thousandths; predict() is -1
\* exactly when decision_function is < 0
detector_score(sender, recipient, amount, timestamp, fit, out) ==
    IF \/ extract_features_raises(amount, timestamp)
       \/ out.fail
       \/ ~fit.scaler \/ ~fit.anomaly \/ ~fit.classifier
       \/ ~ToFloat(amount).ok
    THEN ErrorRecord(ErrorKeys, ErrorScore, "")
    ELSE
    LET combined == combine_scores(out.p, out.a)
        combined_risk == Max(0, Min(One, combined))
        factors == (IF ToFloat(amount).val > HighAmount THEN <<"high_amount">> ELSE <<>>)
                   \o (IF out.a < 0 THEN <<"anomalous_pattern">> ELSE <<>>)
                   \o (IF out.p > P_report THEN <<"suspicious_behavior">> ELSE <<>>)
                   \o (IF ToStr(sender) = ToStr(recipient) THEN <<"self_transaction">> ELSE <<>>)
    IN  Record("success", DetectorKeys, combined_risk,
               combined_risk > T_suspicious, combined_risk > T_high_risk,
               factors, 90, "ml_ensemble", combined, combined_risk, 0, 0)

\* FraudDetector.analyze_transaction: <<detector state afterwards, record>>
FraudDetector_analyze_transaction(sender, recipient, amount, timestamp, isTrained, fit, failAt, out) ==
    LET d == IF isTrained THEN [trained |-> isTrained, fitted |-> fit, status |-> "success"]
             ELSE train_model(isTrained, fit, failAt)
    IN  <<d, [detector_score(sender, recipient, amount, timestamp, d.fitted, out)
                 EXCEPT !.fits = IF isTrained THEN 0 ELSE train_fits(failAt)]>>

-----------------------------------------------------------------------------
(* Flask route /predict/fraud (ml_app.py) *)

FlaskErrorKeys == {"error", "status"}

\* predict_fraud: body is "bad" (get_json raises), "empty" (falsy data), or
\* "ok"
predict_fraud(body, data, isTrained, fit, failAt, out) ==
    CASE body = "bad" -> <<[trained |-> isTrained, fitted |-> fit],
                            [ErrorRecord(FlaskErrorKeys, 0, "") EXCEPT !.http = 500]>>
      [] body = "empty" -> <<[trained |-> isTrained, fitted |-> fit],
                            [ErrorRecord({"error"}, 0, "") EXCEPT !.http = 400, !.status = "none"]>>
      [] OTHER ->
            LET r == FraudDetector_analyze_transaction(
                         Get(data.sender, JStr(<<>>)), Get(data.recipient, JStr(<<>>)),
                         Get(data.amount, JNum(0)), Get(data.timestamp, JNum(0)),
                         isTrained, fit, failAt, out)
            IN  <<[trained |-> r[1].trained, fitted |-> r[1].fitted], r[2]>>

-----------------------------------------------------------------------------
(* CLI (ml_cli.py) *)

CliBase == 10000
CliMediumAmount == 10000000
C_high_amount == 30000
C_medium_amount == 10000
C_self_transfer == 40000
C_malformed_address == 20000
CliT_suspicious == 50000
CliT_high_risk == 70000
CliKeys == {"prediction", "risk_score", "is_suspicious", "is_high_risk",
            "confidence", "model", "risk_factors", "status"}
CliErrorKeys == {"error", "prediction", "risk_score", "model", "status"}

UpperChars == <<"A", "B", "C", "D", "E", "F", "X">>
LowerChars == <<"a", "b", "c", "d", "e", "f", "x">>

\* str.lower()
Lower(s) ==
    [i \in 1..Len(s) |->
        IF \E k \in 1..Len(UpperChars) : UpperChars[k] = s[i]
        THEN LowerChars[CHOOSE k \in 1..Len(UpperChars) : UpperChars[k] = s[i]]
        ELSE s[i]]

\* the mock addresses of the generic format
MockSender ==
    JStr(<<"0", "x", "1", "2", "3", "4", "5", "6", "7", "8", "9", "0", "a", "b", "c", "d", "e", "f">>
         \o [i \in 1..48 |-> "0"])

MockRecipient ==
    JStr(<<"0", "x", "f", "e", "d", "c", "b", "a", "0", "9", "8", "7", "6", "5", "4", "3", "2", "1">>
         \o [i \in 1..48 |-> "0"])

\* int(x) of a timestamp: ok = FALSE stands for ValueError / TypeError
ToInt(v) ==
    CASE v.kind = "num" -> [ok |-> TRUE, val |-> v.num]
      [] v.kind = "str" ->
            IF Len(v.str) > 0 /\ \A i \in 1..Len(v.str) : IsDigit(v.str[i])
            THEN [ok |-> TRUE, val |-> DigitsValue(v.str)]
            ELSE [ok |-> FALSE, val |-> 0]
      [] OTHER -> [ok |-> FALSE, val |-> 0]

\* the rule-based fallback of predict_fraud_ml
cli_fallback(sender, recipient, amount_in) ==
    IF ~ToFloat(amount_in).ok THEN ErrorRecord(CliErrorKeys, CliBase, "error_fallback")
    ELSE
    LET amount == ToFloat(amount_in).val
        a == IF amount > HighAmount THEN <<C_high_amount, <<"high_amount">>>>
             ELSE IF amount > CliMediumAmount THEN <<C_medium_amount, <<"medium_amount">>>>
             ELSE <<0, <<>>>>
        s == IF Lower(ToStr(sender)) = Lower(ToStr(recipient))
             THEN <<C_self_transfer, <<"self_transfer">>>> ELSE <<0, <<>>>>
        m == IF Len(ToStr(sender)) < MinAddressLen \/ Len(ToStr(recipient)) < MinAddressLen
             THEN <<C_malformed_address, <<"malformed_address">>>> ELSE <<0, <<>>>>
        pre == CliBase + a[1] + s[1] + m[1]
        risk_score == Min(pre, One)
    IN  Record("success", CliKeys, risk_score,
               risk_score > CliT_suspicious, risk_score > CliT_high_risk,
               a[2] \o s[2] \o m[2], 75, "rule_based_enhanced", pre, risk_score, 0, 0)

\* predict_fraud_ml.  fmt is the shape of data: "short" (fewer than 3
\* elements), "generic" (3: the amount is data[1]) or "full" (4 or more).
\* env: logOk (the debug log can be opened), importOk (ml_services imports),
\* loadOk (load_model finds and loads the three files).
predict_fraud_ml(fmt, data, current_time, env, out) ==
    IF ~env.logOk THEN [NoResult EXCEPT !.status = "raised"]
    ELSE IF ~env.importOk THEN ErrorRecord(CliErrorKeys, CliBase, "error_fallback")
    ELSE IF fmt = "short" THEN ErrorRecord({"error", "status"}, 0, "")
    ELSE
    LET sender == IF fmt = "generic" THEN MockSender ELSE data.sender
        recipient == IF fmt = "generic" THEN MockRecipient ELSE data.recipient
        amount == data.amount
        timestamp == IF fmt = "generic" THEN JNum(current_time) ELSE data.timestamp
        ts == IF Truthy(timestamp) THEN ToInt(timestamp) ELSE [ok |-> TRUE, val |-> current_time]
    IN  IF env.loadOk /\ ToFloat(amount).ok /\ ts.ok
        THEN LET r == detector_score(JStr(ToStr(sender)), JStr(ToStr(recipient)),
                                     JNum(ToFloat(amount).val), JNum(ts.val), AllFitted, out)
             IN  Record("success", CliKeys, r.risk_score, r.is_suspicious, r.is_high_risk,
                        r.risk_factors, 90, "isolation_forest_ensemble",
                        r.pre, r.clamped, 0, 0)
        ELSE cli_fallback(sender, recipient, amount)

-----------------------------------------------------------------------------
(* CLI (ml_simple.py), the fraud branch of main *)

\* the rule-based fallback of ml_simple.main: the flags are taken from the
\* sum before min(risk_score, 1.0); float(data[2]) raising is caught by the
\* outer except
simple_fallback(sender, recipient, amount_in) ==
    IF ~ToFloat(amount_in).ok THEN ErrorRecord({"error", "status"}, 0, "")
    ELSE
    LET amount == ToFloat(amount_in).val
        a == IF amount > HighAmount THEN <<C_high_amount, <<"high_amount">>>>
             ELSE IF amount > CliMediumAmount THEN <<C_medium_amount, <<"medium_amount">>>>
             ELSE <<0, <<>>>>
        s == IF Lower(ToStr(sender)) = Lower(ToStr(recipient))
             THEN <<C_self_transfer, <<"self_transfer">>>> ELSE <<0, <<>>>>
        m == IF Len(ToStr(sender)) < MinAddressLen \/ Len(ToStr(recipient)) < MinAddressLen
             THEN <<C_malformed_address, <<"malformed_address">>>> ELSE <<0, <<>>>>
        risk_score == CliBase + a[1] + s[1] + m[1]
    IN  Record("success", CliKeys, Min(risk_score, One),
               risk_score > CliT_suspicious, risk_score > CliT_high_risk,
               a[2] \o s[2] \o m[2], 75, "rule_based_enhanced",
               risk_score, Min(risk_score, One), 0, 0)

\* ml_simple.main with prediction_type "fraud".  fmt is the length of data:
\* "short" (fewer than 3 elements: data[2] raises IndexError in the try and
\* again in the fallback), "three" (data[3] raises in the try) or "full".
\* Whatever raises inside the try (the import, float(), int(), an index) is
\* swallowed by the bare except; load_model() false skips the ML answer.
ml_simple_main(fmt, data, env, out) ==
    IF fmt = "short" THEN ErrorRecord({"error", "status"}, 0, "")
    ELSE
    LET ts == ToInt(data.timestamp)
    IN  IF env.importOk /\ env.loadOk /\ fmt = "full" /\ ToFloat(data.amount).ok /\ ts.ok
        THEN LET r == detector_score(JStr(ToStr(data.sender)), JStr(ToStr(data.recipient)),
                                     JNum(ToFloat(data.amount).val), JNum(ts.val), AllFitted, out)
             IN  Record("success", CliKeys, r.risk_score, r.is_suspicious, r.is_high_risk,
                        r.risk_factors, 90, "isolation_forest_ensemble",
                        r.pre, r.clamped, 0, 0)
        ELSE simple_fallback(data.sender, data.recipient, data.amount)

-----------------------------------------------------------------------------
(* Prediction endpoint (api/predict.py).  data is the list of the request,   *)
(* a sequence of JSON values [network_congestion, amount, time_factor]; a    *)
(* fee is the integer fee * 10^8.                                            *)

PredMicroAmount == 1
PredCongestion == 8000
PredTimeMax == 14400000
PW_high_amount == 40000
PW_micro_transaction == 30000
PW_high_congestion == 20000
PW_unusual_timing == 30000
PredInsufficient == 30000
T_fraud == 70000
DefaultCongestion == 5000
DefaultFeeAmount == 1000000
FeeBase == 100000
FeeMin == 10000
FeeMax == 1000000

\* float(x) if x else default
FloatOr(v, default) == IF Truthy(v) THEN ToFloat(v) ELSE [ok |-> TRUE, val |-> default]

\* float(val) if val is not None else 0.0, ValueError and TypeError giving 0.0
NumericOr0(v) == IF ToFloat(v).ok THEN ToFloat(v).val ELSE 0

\* round(x, 6) of a fee
Round6(x) == ((x + 50) \div 100) * 100

PredictRuleKeys == {"risk_score", "is_fraud", "confidence", "model", "status", "risk_factors"}
PredictMlKeys == {"risk_score", "is_fraud", "confidence", "model", "status",
                  "input_data", "anomaly_score"}
PredictErrorKeys == {"error", "risk_score", "is_fraud", "confidence", "model", "status"}
FeeKeys == {"fee", "confidence", "model", "status", "factors"}
FeeMlKeys == {"fee", "confidence", "model", "status", "input_data", "factors"}
FeeErrorKeys == {"error", "fee", "confidence", "model", "status"}

PredictError ==
    [ErrorRecord(PredictErrorKeys, ErrorScore, "error_fallback") EXCEPT !.confidence = 50]

\* handler.detect_fraud of api/predict.py.  sig is what the isolation forest
\* fitted for this request does: it raises, or decision_function returns
\* anomaly (thousandths); predict() is -1 exactly when that is < 0.
detect_fraud(data, mlAvailable, sig) ==
    IF ~mlAvailable
    THEN IF Len(data) >= 2
         THEN LET amount == FloatOr(data[2], 0)
                  network_congestion == FloatOr(data[1], DefaultCongestion)
                  time_factor == IF Len(data) >= 3 THEN FloatOr(data[3], 0)
                                 ELSE [ok |-> TRUE, val |-> 0]
              IN  IF ~amount.ok \/ ~network_congestion.ok \/ ~time_factor.ok
                  THEN PredictError
                  ELSE
                  LET a == IF amount.val > HighAmount THEN <<PW_high_amount, <<"high_amount">>>>
                           ELSE IF amount.val < PredMicroAmount
                                THEN <<PW_micro_transaction, <<"micro_transaction">>>>
                           ELSE <<0, <<>>>>
                      c == IF network_congestion.val > PredCongestion
                           THEN <<PW_high_congestion, <<"high_congestion">>>> ELSE <<0, <<>>>>
                      t == IF Len(data) >= 3
                              /\ (time_factor.val > PredTimeMax \/ time_factor.val < 0)
                           THEN <<PW_unusual_timing, <<"unusual_timing">>>> ELSE <<0, <<>>>>
                      pre == a[1] + c[1] + t[1]
                      risk_score == Min(One, pre)
                  IN  [Record("success", PredictRuleKeys, Round3(risk_score), FALSE, FALSE,
                              a[2] \o c[2] \o t[2], 70, "rule_based", pre, risk_score, 0, 0)
                          EXCEPT !.is_fraud = risk_score > T_fraud]
         ELSE [Record("success", PredictRuleKeys, Round3(PredInsufficient), FALSE, FALSE,
                      <<"insufficient_data">>, 70, "rule_based",
                      PredInsufficient, PredInsufficient, 0, 0)
                  EXCEPT !.is_fraud = PredInsufficient > T_fraud]
    ELSE IF sig.fail THEN PredictError
    ELSE LET is_anomaly == sig.anomaly < 0
             risk_score == Max(0, Min(One, ((1000 - sig.anomaly) * 100) \div 2))
         IN  [Record("success", PredictMlKeys, Round3(risk_score), FALSE, FALSE, <<>>,
                     80, "isolation_forest", risk_score, risk_score, 0, risk_score)
                 EXCEPT !.is_fraud = is_anomaly, !.fits = 1]

\* handler.predict_fee of api/predict.py.  In the fallback the factors of the
\* record read amount and network_congestion, which are bound only when
\* len(data) >= 2: with exactly one element the read of network_congestion
\* raises UnboundLocalError and the except answers.
predict_fee(data, mlAvailable) ==
    LET FeeError == [ErrorRecord(FeeErrorKeys, 0, "error_fallback")
                        EXCEPT !.confidence = 50, !.fee = FeeBase]
    IN
    IF ~mlAvailable
    THEN IF Len(data) >= 2
         THEN LET amount == FloatOr(data[2], DefaultFeeAmount)
                  network_congestion == FloatOr(data[1], DefaultCongestion)
              IN  IF ~amount.ok \/ ~network_congestion.ok THEN FeeError
                  ELSE [Record("success", FeeKeys, 0, FALSE, FALSE, <<>>, 75,
                               "fallback_calculation", 0, 0, 0, 0)
                           EXCEPT !.fee = Round6(FeeBase + amount.val + 10 * network_congestion.val),
                                  !.factors = [amount_factor |-> amount.val,
                                               congestion_factor |-> 10 * network_congestion.val]]
         ELSE IF Len(data) >= 1 THEN FeeError
         ELSE [Record("success", FeeKeys, 0, FALSE, FALSE, <<>>, 75,
                      "fallback_calculation", 0, 0, 0, 0)
                  EXCEPT !.fee = Round6(FeeBase)]
    ELSE LET padded == data \o [i \in 1..(3 - Len(data)) |-> JNum(0)]
             predicted == FeeBase + 20 * NumericOr0(padded[1]) + NumericOr0(padded[2])
                          + 5 * NumericOr0(padded[3])
         IN  [Record("success", FeeMlKeys, 0, FALSE, FALSE, <<>>, 85,
                     "linear_regression", 0, 0, 0, 0)
                 EXCEPT !.fee = Round6(Max(FeeMin, Min(FeeMax, predicted)))]

\* handler.do_POST of api/predict.py: the body is not JSON (bodyOk FALSE), or
\* an object with type (default "fee") and data (default [])
predict_do_POST(bodyOk, type, data, mlAvailable, sig) ==
    IF ~bodyOk THEN ErrorRecord({"error", "status", "ml_available"}, 0, "")
    ELSE IF type = "fee" THEN predict_fee(data, mlAvailable)
    ELSE IF type = "fraud" THEN detect_fraud(data, mlAvailable, sig)
    ELSE ErrorRecord({"error", "status"}, 0, "")

-----------------------------------------------------------------------------
(* CLI entry points: main of ml_cli.py and of ml_simple.py *)

CliFeeBase == 100000
CliAmountCap == 1000000
CliLoadRate == 50
CliDefaultLoad == 5000
CliFeeMin == 10000
CliFeeKeys == {"prediction", "fee", "predicted_fee", "currency", "confidence", "model",
               "factors", "status"}
CliFeeErrorKeys == {"error", "prediction", "fee", "predicted_fee", "model", "status"}

\* the priority multiplier, in tenths
PriorityMultiplier(priority) ==
    CASE Lower(priority) = <<"l", "o", "w">> -> 8
      [] Lower(priority) = <<"h", "i", "g", "h">> -> 15
      [] Lower(priority) = <<"u", "r", "g", "e", "n", "t">> -> 20
      [] OTHER -> 10

\* the mathematical fee of both CLI fallbacks
mathematical_fee(amount, network_load, priority) ==
    Max(CliFeeMin,
        ((CliFeeBase + Min(amount, CliAmountCap) + CliLoadRate * network_load)
            * PriorityMultiplier(priority)) \div 10)

\* predict_fee_ml.  data is the list [amount, network_load, priority]; pred
\* is what FeePredictor.predict_fee answers (its own except makes it an
\* error dict with predicted_fee 0.001, never an exception).
predict_fee_ml(data, env, pred) ==
    IF ~env.importOk THEN [ErrorRecord(CliFeeErrorKeys, 0, "error_fallback") EXCEPT !.fee = CliFeeBase]
    ELSE IF Len(data) < 3 THEN ErrorRecord({"error", "status"}, 0, "")
    ELSE
    LET amount == ToFloat(data[1])
        network_load == FloatOr(data[2], CliDefaultLoad)
    IN  IF ~amount.ok \/ ~network_load.ok
        THEN [ErrorRecord(CliFeeErrorKeys, 0, "error_fallback") EXCEPT !.fee = CliFeeBase]
        ELSE IF env.loadOk
        THEN [Record("success", CliFeeKeys, 0, FALSE, FALSE, <<>>, 80,
                     "random_forest_regressor", 0, 0, 0, 0)
                 EXCEPT !.fee = IF pred.fail THEN CliFeeBase ELSE pred.fee]
        ELSE [Record("success", CliFeeKeys, 0, FALSE, FALSE, <<>>, 85,
                     "mathematical_enhanced", 0, 0, 0, 0)
                 EXCEPT !.fee = mathematical_fee(amount.val, network_load.val, ToStr(data[3]))]

\* the flags of an ML answer are numpy booleans unless the clamp replaced the
\* combined score by the int 0 or 1; json.dumps raises TypeError on them
NumpyFlags(r) ==
    r.model = "isolation_forest_ensemble" /\ r.pre > 0 /\ r.pre < One

\* ml_cli.main.  stdin is the kind of input: "fraud" or "fee" (a valid type
\* line and a JSON second line), "unknown" (another type), "malformed" (the
\* second line is not JSON) or "missing" (no second line).  The record is
\* what the routed function returned; printed and printed_keys tell what
\* went to stdout: that record, or the CLI error object of the except when
\* the log, the function or json.dumps raised.
ml_cli_main(stdin, fmt, data, list, current_time, env, out, pred) ==
    LET CliError(r) == [r EXCEPT !.printed = 1, !.printed_keys = {"error", "status"}]
        Printed(r) == [r EXCEPT !.printed = 1, !.printed_keys = r.keys]
    IN  IF stdin \in {"missing", "malformed"}
        THEN CliError(ErrorRecord({"error", "status"}, 0, ""))
        ELSE IF stdin = "fraud"
        THEN LET r == predict_fraud_ml(fmt, data, current_time, env, out)
             IN  IF r.status = "raised" \/ NumpyFlags(r) THEN CliError(r) ELSE Printed(r)
        ELSE IF ~env.logOk THEN CliError(ErrorRecord({"error", "status"}, 0, ""))
        ELSE IF stdin = "fee" THEN Printed(predict_fee_ml(list, env, pred))
        ELSE Printed(ErrorRecord({"error", "status"}, 0, ""))

SimpleFeeKeys == CliFeeKeys \ {"factors"}

\* ml_simple.main with prediction_type "fee".  Whatever raises in the try is
\* swallowed; an index or a float() that raises there raises again in the
\* fallback, where the outer except answers.
ml_simple_fee(data, env, pred) ==
    IF Len(data) < 3 THEN ErrorRecord({"error", "status"}, 0, "")
    ELSE
    LET amount == ToFloat(data[1])
        load_ml == ToFloat(data[2])
        network_load == FloatOr(data[2], CliDefaultLoad)
        priority == IF Truthy(data[3]) THEN ToStr(data[3]) ELSE <<"n", "o", "r", "m", "a", "l">>
    IN  IF env.importOk /\ env.loadOk /\ amount.ok /\ load_ml.ok
        THEN [Record("success", CliFeeKeys, 0, FALSE, FALSE, <<>>, 80,
                     "random_forest_regressor", 0, 0, 0, 0)
                 EXCEPT !.fee = IF pred.fail THEN CliFeeBase ELSE pred.fee]
        ELSE IF ~amount.ok \/ ~network_load.ok THEN ErrorRecord({"error", "status"}, 0, "")
        ELSE [Record("success", SimpleFeeKeys, 0, FALSE, FALSE, <<>>, 85,
                     "mathematical_enhanced", 0, 0, 0, 0)
                 EXCEPT !.fee = mathematical_fee(amount.val, network_load.val, priority)]

\* ml_simple.main.  stdin as for ml_cli.main.  Each branch of the type test
\* ends in one print; there is no else, so another type prints nothing.
ml_simple_run(stdin, fmt, data, list, env, out, pred) ==
    LET Printed(r) == [r EXCEPT !.printed = 1, !.printed_keys = r.keys]
    IN  IF stdin \in {"missing", "malformed"}
        THEN Printed(ErrorRecord({"error", "status"}, 0, ""))
        ELSE IF stdin = "fraud" THEN Printed(ml_simple_main(fmt, data, env, out))
        ELSE IF stdin = "fee" THEN Printed(ml_simple_fee(list, env, pred))
        ELSE NoResult

-----------------------------------------------------------------------------
(* Inputs *)

StartTime == 1700000000
TickStep == 200
MaxTicks == 1

W1 == <<"0", "x", "1", "2", "3", "4", "5", "6", "7", "8", "9", "a">>
W2 == <<"0", "x", "f", "e", "d", "c", "b", "a", "9", "5", "7", "6">>
W1U == [W1 EXCEPT ![12] = "A"]
Near2 == [W1 EXCEPT ![11] = "c", ![12] = "d"]
Near3 == [W1 EXCEPT ![10] = "b", ![11] = "c", ![12] = "d"]
S9 == SubSeq(W1, 1, MinAddressLen - 1)
S10 == SubSeq(W1, 1, MinAddressLen)
D4 == [i \in 1..12 |-> Digits[(i % 4) + 1]]
ScenA == <<"0", "x">> \o [i \in 1..40 |-> "A"]
ScenB == <<"0", "x">> \o [i \in 1..40 |-> "B"]

HandlerAddresses ==
    {JStr(W1), JStr(W2), JStr(Near2), JStr(Near3), JStr(S9), JStr(S10), JStr(D4),
     JStr(ScenA), JStr(ScenB), JNum(7), JAbsent}

HandlerAmounts ==
    {JNum(0), JNum(1), JNum(MicroAmount), JNum(10000), JNum(10000000),
     JNum(HighAmount), JNum(HighAmount + 1), JNum(500000000),
     JNum(VeryHighAmount), JNum(VeryHighAmount + 1), JNum(1500000000),
     JStr(<<"a", "b", "c">>), JStr(<<"5", "0">>), JNull}

Timestamps ==
    {JNum(0),
     JNum(StartTime - StaleWindow - 100),
     JNum(StartTime - StaleWindow - 19 * HourSeconds),
     JNum(StartTime - StaleWindow + 100),
     JNum(StartTime + FutureTolerance + 100),
     JNum(StartTime + FutureTolerance + 300),
     JNum(StartTime - 19 * HourSeconds),
     JNum(StartTime - 100),
     JStr(<<"a", "b", "c">>)}

NoSig == [fail |-> TRUE, anomaly |-> 0]
Signals == {NoSig} \cup {[fail |-> FALSE, anomaly |-> a] : a \in {-1200, -402, 0, 1200}}

NoOut == [fail |-> TRUE, p |-> 0, a |-> 0]
OutPairs == {<<0, 1200>>, <<1000, -1200>>, <<600, -200>>, <<600, -201>>,
             <<800, -600>>, <<800, -601>>, <<701, 0>>, <<700, -1>>,
             <<500, 1200>>, <<500, -1200>>}
Outs == {NoOut} \cup {[fail |-> FALSE, p |-> o[1], a |-> o[2]] : o \in OutPairs}

DetectorAddresses == {JStr(W1), JStr(W2), JNum(7)}
Tail3 == <<"0", "x", "a", "a", "a">>
Tail3Long == <<"0", "x", "1", "2", "3", "4", "5", "b", "b", "b", "9">>
PatternAddresses == DetectorAddresses \cup {JStr(Tail3), JStr(Tail3Long), JStr(D4), JStr(ScenA)}
DetectorAmounts == {JNum(0), JNum(HighAmount), JNum(HighAmount + 1), JNum(VeryHighAmount),
                    JStr(<<"a", "b", "c">>), JNull}
DetectorTimestamps == {JNum(0), JNum(StartTime - 100), JStr(<<"a", "b", "c">>)}
CliAddresses == {JStr(W1), JStr(W1U), JStr(S9), JNum(7)}
LoadOutcomes == {"ok", "missing", "classifier_raises", "scaler_raises"}
FailPoints == {"none", "prepare", "anomaly_fit", "classifier_fit", "evaluate"}

CliAmounts == {JNum(0), JNum(CliMediumAmount), JNum(CliMediumAmount + 1), JNum(HighAmount),
               JNum(HighAmount + 1), JStr(<<"a", "b", "c">>), JStr(<<"5", "0">>), JNull}
CliEnvs == [logOk : BOOLEAN, importOk : BOOLEAN, loadOk : BOOLEAN]
StdinKinds == {"fraud", "fee", "unknown", "malformed", "missing"}
NoFeeOut == [fail |-> TRUE, fee |-> 0]
FeeOuts == {NoFeeOut, [fail |-> FALSE, fee |-> 150000]}
CliFeeData ==
    {<<>>,
     <<JNum(1000000), JNum(5000), JStr(<<"h", "i", "g", "h">>)>>,
     <<JNum(200000000), JNull, JNull>>,
     <<JStr(<<"a", "b", "c">>), JNum(5000), JStr(<<"l", "o", "w">>)>>,
     <<JNum(1000000), JStr(<<"a", "b", "c">>), JNull>>}

Congestions == {JNum(5000), JNum(9000), JNull, JStr(<<"a", "b", "c">>)}
PredictAmounts == {JNum(0), JNum(1000000), JNum(HighAmount + 1), JStr(<<"a", "b", "c">>)}
TimeFactors == {JNum(0), JNum(PredTimeMax + 10000), JNum(-10000), JStr(<<"a", "b", "c">>), JNull}
PredictData ==
    {<<>>} \cup {<<c>> : c \in Congestions}
           \cup {<<c, a>> : c \in Congestions, a \in PredictAmounts}
           \cup {<<c, a, t>> : c \in Congestions, a \in PredictAmounts, t \in TimeFactors}
PredictSignals == Signals \cup {[fail |-> FALSE, anomaly |-> -200]}

Tx(s, r, a, t) == [sender |-> s, recipient |-> r, amount |-> a, timestamp |-> t]
NoTx == Tx(JAbsent, JAbsent, JAbsent, JAbsent)
NoEnv == [logOk |-> TRUE, importOk |-> TRUE, loadOk |-> TRUE]

Call(path, fmt, data, sig, out, env, failAt) ==
    [path |-> path, fmt |-> fmt, data |-> data, sig |-> sig, out |-> out,
     env |-> env, failAt |-> failAt, at |-> now, list |-> <<>>,
     stdin |-> "", pred |-> NoFeeOut]

NoCall == [path |-> "none", fmt |-> "", data |-> NoTx, sig |-> NoSig, out |-> NoOut,
           env |-> NoEnv, failAt |-> "none", at |-> 0, list |-> <<>>,
           stdin |-> "", pred |-> NoFeeOut]

\* the threads of the Flask server (app.run serves each request in a thread
\* of its own) and the number of fits a behaviour may start
Threads == {"t1", "t2"}
MaxFits == 2

NoVersions == [scaler |-> 0, anomaly |-> 0, classifier |-> 0]

\* a thread: pc is the statement it is about to execute, op the method it was
\* asked to run, lazy whether analyze_transaction entered train_model itself,
\* fit the number of the fit it is carrying out, used the fit that each
\* object it has read so far came from (0: not read yet)
IdleThread == [pc |-> "idle", op |-> "none", lazy |-> FALSE, fit |-> 0, used |-> NoVersions]

\* the shared detector: version is the fit that last wrote each object (0:
\* never fitted), fits the number of train_model runs that reached
\* fit_transform, lazyFits those started by analyze_transaction
NoFits == [version |-> NoVersions, fits |-> 0, lazyFits |-> 0]

-----------------------------------------------------------------------------
(* Behaviour *)

Init ==
    /\ proc \in {"api", "flask", "cli", "predict"}
    /\ now = StartTime
    /\ ML_AVAILABLE \in (IF proc \in {"api", "predict"} THEN BOOLEAN ELSE {TRUE})
    /\ trained = FALSE
    /\ fitted = Unfitted
    /\ pc = "idle"
    /\ call = NoCall
    /\ result = NoResult
    /\ threads = [t \in Threads |-> IdleThread]
    /\ det = NoFits

\* the clock advances between requests
Tick ==
    /\ pc = "idle"
    /\ now < StartTime + MaxTicks * TickStep
    /\ now' = now + TickStep
    /\ UNCHANGED <<proc, ML_AVAILABLE, trained, fitted, pc, call, result, threads, det>>

\* the response has been sent; the process waits for the next request
Finish ==
    /\ pc = "done"
    /\ pc' = "idle"
    /\ call' = NoCall
    /\ result' = NoResult
    /\ UNCHANGED <<proc, now, ML_AVAILABLE, trained, fitted, threads, det>>

\* POST to api/fraud-detection.py
do_POST ==
    /\ proc = "api"
    /\ pc = "idle"
    /\ \E bodyOk \in BOOLEAN :
       \E s \in (IF bodyOk THEN HandlerAddresses ELSE {JAbsent}) :
       \E r \in (IF bodyOk THEN HandlerAddresses ELSE {JAbsent}) :
       \E a \in (IF bodyOk THEN HandlerAmounts ELSE {JAbsent}) :
       \E t \in (IF bodyOk THEN Timestamps ELSE {JAbsent}) :
       \E sig \in (IF bodyOk /\ ML_AVAILABLE THEN Signals ELSE {NoSig}) :
          /\ call' = Call("handler", IF bodyOk THEN "object" ELSE "bad", Tx(s, r, a, t),
                          sig, NoOut, NoEnv, "none")
          /\ result' = handler_do_POST(bodyOk, Tx(s, r, a, t), now, ML_AVAILABLE, sig)
    /\ pc' = "done"
    /\ UNCHANGED <<proc, now, ML_AVAILABLE, trained, fitted, threads, det>>

\* a direct call of fraud_detector.analyze_transaction in the Flask process
DetectorAnalyze ==
    /\ proc = "flask"
    /\ pc = "idle"
    /\ \E s \in PatternAddresses, r \in DetectorAddresses,
          a \in DetectorAmounts, t \in DetectorTimestamps, out \in Outs,
          failAt \in (IF trained THEN {"none"} ELSE FailPoints) :
          LET res == FraudDetector_analyze_transaction(s, r, a, t, trained, fitted, failAt, out)
          IN  /\ call' = Call("detector", "object", Tx(s, r, a, t), NoSig, out, NoEnv, failAt)
              /\ result' = res[2]
              /\ trained' = res[1].trained
              /\ fitted' = res[1].fitted
    /\ pc' = "done"
    /\ UNCHANGED <<proc, now, ML_AVAILABLE, threads, det>>

\* POST /predict/fraud of ml_app.py
FlaskPredictFraud ==
    /\ proc = "flask"
    /\ pc = "idle"
    /\ \E body \in {"bad", "empty", "ok"} :
       \E s \in (IF body = "ok" THEN DetectorAddresses \cup {JAbsent} ELSE {JAbsent}) :
       \E r \in (IF body = "ok" THEN DetectorAddresses \cup {JAbsent} ELSE {JAbsent}) :
       \E a \in (IF body = "ok" THEN DetectorAmounts ELSE {JAbsent}) :
       \E t \in (IF body = "ok" THEN DetectorTimestamps ELSE {JAbsent}) :
       \E out \in (IF body = "ok" THEN Outs ELSE {NoOut}) :
       \E failAt \in (IF body = "ok" /\ ~trained THEN FailPoints ELSE {"none"}) :
          LET res == predict_fraud(body, Tx(s, r, a, t), trained, fitted, failAt, out)
          IN  /\ call' = Call("flask", body, Tx(s, r, a, t), NoSig, out, NoEnv, failAt)
              /\ result' = res[2]
              /\ trained' = res[1].trained
              /\ fitted' = res[1].fitted
    /\ pc' = "done"
    /\ UNCHANGED <<proc, now, ML_AVAILABLE, threads, det>>

\* fraud_detector.load_model() at the start of ml_app.py
FlaskLoadModel ==
    /\ proc = "flask"
    /\ pc = "idle"
    /\ \E outcome \in LoadOutcomes :
          LET d == load_model(trained, fitted, outcome)
          IN  /\ trained' = d.trained
              /\ fitted' = d.fitted
    /\ UNCHANGED <<proc, now, ML_AVAILABLE, pc, call, result, threads, det>>

\* POST /train/fraud_detector of ml_app.py
FlaskTrain ==
    /\ proc = "flask"
    /\ pc = "idle"
    /\ \E failAt \in FailPoints :
          LET d == train_model(trained, fitted, failAt)
          IN  /\ trained' = d.trained
              /\ fitted' = d.fitted
    /\ UNCHANGED <<proc, now, ML_AVAILABLE, pc, call, result, threads, det>>

\* one run of ml_cli.py
CliPredictFraud ==
    /\ proc = "cli"
    /\ pc = "idle"
    /\ \E stdin \in StdinKinds :
       \E fmt \in (IF stdin = "fraud" THEN {"short", "generic", "full"} ELSE {"none"}) :
       \E s \in (IF fmt = "full" THEN CliAddresses ELSE {JAbsent}) :
       \E r \in (IF fmt = "full" THEN CliAddresses ELSE {JAbsent}) :
       \E a \in (IF fmt \in {"generic", "full"} THEN CliAmounts ELSE {JAbsent}) :
       \E t \in (IF fmt = "full" THEN DetectorTimestamps ELSE {JAbsent}) :
       \E env \in (IF stdin \in {"malformed", "missing"} THEN {NoEnv} ELSE CliEnvs) :
       \E out \in (IF env.logOk /\ env.importOk /\ env.loadOk /\ fmt \in {"generic", "full"}
                   THEN Outs ELSE {NoOut}) :
       \E list \in (IF stdin = "fee" THEN CliFeeData ELSE {<<>>}) :
       \E pred \in (IF stdin = "fee" /\ env.importOk /\ env.loadOk THEN FeeOuts ELSE {NoFeeOut}) :
          /\ call' = [Call(IF stdin = "fraud" THEN "cli" ELSE "cli_main", fmt, Tx(s, r, a, t),
                            NoSig, out, env, "none")
                          EXCEPT !.list = list, !.stdin = stdin, !.pred = pred]
          /\ result' = ml_cli_main(stdin, fmt, Tx(s, r, a, t), list, now, env, out, pred)
    /\ pc' = "done"
    /\ UNCHANGED <<proc, now, ML_AVAILABLE, trained, fitted, threads, det>>

\* one run of ml_simple.py
SimpleMain ==
    /\ proc = "cli"
    /\ pc = "idle"
    /\ \E stdin \in StdinKinds :
       \E fmt \in (IF stdin = "fraud" THEN {"short", "three", "full"} ELSE {"none"}) :
       \E s \in (IF fmt \in {"three", "full"} THEN CliAddresses ELSE {JAbsent}) :
       \E r \in (IF fmt \in {"three", "full"} THEN CliAddresses ELSE {JAbsent}) :
       \E a \in (IF fmt \in {"three", "full"} THEN CliAmounts ELSE {JAbsent}) :
       \E t \in (IF fmt = "full" THEN DetectorTimestamps \cup {JNull} ELSE {JAbsent}) :
       \E env \in (IF stdin \in {"fraud", "fee"} THEN {e \in CliEnvs : e.logOk} ELSE {NoEnv}) :
       \E out \in (IF env.importOk /\ env.loadOk /\ fmt = "full" THEN Outs ELSE {NoOut}) :
       \E list \in (IF stdin = "fee" THEN CliFeeData ELSE {<<>>}) :
       \E pred \in (IF stdin = "fee" /\ env.importOk /\ env.loadOk THEN FeeOuts ELSE {NoFeeOut}) :
          /\ call' = [Call(IF stdin = "fraud" THEN "simple" ELSE "simple_main", fmt,
                            Tx(s, r, a, t), NoSig, out, env, "none")
                          EXCEPT !.list = list, !.stdin = stdin, !.pred = pred]
          /\ result' = ml_simple_run(stdin, fmt, Tx(s, r, a, t), list, env, out, pred)
    /\ pc' = "done"
    /\ UNCHANGED <<proc, now, ML_AVAILABLE, trained, fitted, threads, det>>

\* POST to api/predict.py
PredictPost ==
    /\ proc = "predict"
    /\ pc = "idle"
    /\ \E bodyOk \in BOOLEAN :
       \E type \in (IF bodyOk THEN {"fee", "fraud", "other"} ELSE {"fee"}) :
       \E data \in (IF bodyOk /\ type # "other" THEN PredictData ELSE {<<>>}) :
       \E sig \in (IF bodyOk /\ type = "fraud" /\ ML_AVAILABLE THEN PredictSignals ELSE {NoSig}) :
          /\ call' = [Call(IF ~bodyOk THEN "predict" ELSE IF type = "fee" THEN "predict_fee"
                             ELSE IF type = "fraud" THEN "detect_fraud" ELSE "predict",
                            IF bodyOk THEN "object" ELSE "bad", NoTx, sig, NoOut, NoEnv, "none")
                          EXCEPT !.list = data]
          /\ result' = predict_do_POST(bodyOk, type, data, ML_AVAILABLE, sig)
    /\ pc' = "done"
    /\ UNCHANGED <<proc, now, ML_AVAILABLE, trained, fitted, threads, det>>

Next ==
    \/ Tick
    \/ Finish
    \/ do_POST
    \/ DetectorAnalyze
    \/ FlaskPredictFraud
    \/ FlaskLoadModel
    \/ FlaskTrain
    \/ CliPredictFraud
    \/ SimpleMain
    \/ PredictPost

Spec == Init /\ [][Next]_vars

-----------------------------------------------------------------------------
(* ml_app.py serving concurrent requests: the module-level fraud_detector is *)
(* shared by the threads and nothing in FraudDetector locks it; a thread     *)
(* can be preempted between any two statements.  Each action is one          *)
(* statement of train_model or analyze_transaction that reads or writes the  *)
(* shared object, on the path where nothing raises.                          *)

InitThreaded ==
    /\ proc = "threaded"
    /\ now = StartTime
    /\ ML_AVAILABLE = TRUE
    /\ trained = FALSE
    /\ fitted = Unfitted
    /\ pc = "idle"
    /\ call = NoCall
    /\ result = NoResult
    /\ threads = [t \in Threads |-> IdleThread]
    /\ det = NoFits

\* a thread starts train_model: the preparation up to train_test_split
\* touches nothing shared
BeginFit(t, op, isLazy) ==
    /\ det.fits < MaxFits
    /\ threads' = [threads EXCEPT ![t] = [@ EXCEPT !.pc = "fit_scaler", !.op = op,
                                                    !.lazy = isLazy, !.fit = det.fits + 1]]
    /\ det' = [det EXCEPT !.fits = @ + 1, !.lazyFits = IF isLazy THEN @ + 1 ELSE @]

\* POST /predict/fraud reaches fraud_detector.analyze_transaction
ThreadAnalyze ==
    \E t \in Threads :
        /\ threads[t].pc = "idle"
        /\ threads' = [threads EXCEPT ![t] = [@ EXCEPT !.pc = "check", !.op = "analyze"]]
        /\ UNCHANGED <<proc, now, ML_AVAILABLE, trained, fitted, pc, call, result, det>>

\* POST /train/fraud_detector reaches fraud_detector.train_model
ThreadTrain ==
    \E t \in Threads :
        /\ threads[t].pc = "idle"
        /\ BeginFit(t, "train", FALSE)
        /\ UNCHANGED <<proc, now, ML_AVAILABLE, trained, fitted, pc, call, result>>

\* analyze_transaction: if not self.trained: self.train_model()
ThreadCheckTrained ==
    \E t \in Threads :
        /\ threads[t].pc = "check"
        /\ IF trained
           THEN /\ threads' = [threads EXCEPT ![t] = [@ EXCEPT !.pc = "transform"]]
                /\ det' = det
           ELSE BeginFit(t, "analyze", TRUE)
        /\ UNCHANGED <<proc, now, ML_AVAILABLE, trained, fitted, pc, call, result>>

\* train_model: self.scaler.fit_transform(X_train)
ThreadFitScaler ==
    \E t \in Threads :
        /\ threads[t].pc = "fit_scaler"
        /\ det' = [det EXCEPT !.version.scaler = threads[t].fit]
        /\ fitted' = [fitted EXCEPT !.scaler = TRUE]
        /\ threads' = [threads EXCEPT ![t] = [@ EXCEPT !.pc = "fit_anomaly"]]
        /\ UNCHANGED <<proc, now, ML_AVAILABLE, trained, pc, call, result>>

\* train_model: self.anomaly_model.fit(X_normal)
ThreadFitAnomaly ==
    \E t \in Threads :
        /\ threads[t].pc = "fit_anomaly"
        /\ det' = [det EXCEPT !.version.anomaly = threads[t].fit]
        /\ fitted' = [fitted EXCEPT !.anomaly = TRUE]
        /\ threads' = [threads EXCEPT ![t] = [@ EXCEPT !.pc = "fit_classifier"]]
        /\ UNCHANGED <<proc, now, ML_AVAILABLE, trained, pc, call, result>>

\* train_model: self.classification_model.fit(X_train_scaled, y_train)
ThreadFitClassifier ==
    \E t \in Threads :
        /\ threads[t].pc = "fit_classifier"
        /\ det' = [det EXCEPT !.version.classifier = threads[t].fit]
        /\ fitted' = [fitted EXCEPT !.classifier = TRUE]
        /\ threads' = [threads EXCEPT ![t] = [@ EXCEPT !.pc = "set_trained"]]
        /\ UNCHANGED <<proc, now, ML_AVAILABLE, trained, pc, call, result>>

\* train_model: self.trained = True and the return; analyze_transaction
\* goes on to score, the training route answers
ThreadSetTrained ==
    \E t \in Threads :
        /\ threads[t].pc = "set_trained"
        /\ trained' = TRUE
        /\ threads' = [threads EXCEPT ![t] = [@ EXCEPT !.pc = IF threads[t].op = "analyze"
                                                               THEN "transform" ELSE "return"]]
        /\ UNCHANGED <<proc, now, ML_AVAILABLE, fitted, pc, call, result, det>>

\* analyze_transaction: self.scaler.transform(features)
ThreadTransform ==
    \E t \in Threads :
        /\ threads[t].pc = "transform"
        /\ threads' = [threads EXCEPT ![t] = [@ EXCEPT !.pc = "decision_function",
                                                        !.used.scaler = det.version.scaler]]
        /\ UNCHANGED <<proc, now, ML_AVAILABLE, trained, fitted, pc, call, result, det>>

\* analyze_transaction: self.anomaly_model.decision_function / predict
ThreadDecisionFunction ==
    \E t \in Threads :
        /\ threads[t].pc = "decision_function"
        /\ threads' = [threads EXCEPT ![t] = [@ EXCEPT !.pc = "predict_proba",
                                                        !.used.anomaly = det.version.anomaly]]
        /\ UNCHANGED <<proc, now, ML_AVAILABLE, trained, fitted, pc, call, result, det>>

\* analyze_transaction: self.classification_model.predict_proba / predict
ThreadPredictProba ==
    \E t \in Threads :
        /\ threads[t].pc = "predict_proba"
        /\ threads' = [threads EXCEPT ![t] = [@ EXCEPT !.pc = "return",
                                                        !.used.classifier = det.version.classifier]]
        /\ UNCHANGED <<proc, now, ML_AVAILABLE, trained, fitted, pc, call, result, det>>

\* the route answers and the thread takes the next request
ThreadReturn ==
    \E t \in Threads :
        /\ threads[t].pc = "return"
        /\ threads' = [threads EXCEPT ![t] = IdleThread]
        /\ UNCHANGED <<proc, now, ML_AVAILABLE, trained, fitted, pc, call, result, det>>

NextThreaded ==
    \/ ThreadAnalyze
    \/ ThreadTrain
    \/ ThreadCheckTrained
    \/ ThreadFitScaler
    \/ ThreadFitAnomaly
    \/ ThreadFitClassifier
    \/ ThreadSetTrained
    \/ ThreadTransform
    \/ ThreadDecisionFunction
    \/ ThreadPredictProba
    \/ ThreadReturn

SpecThreaded == InitThreaded /\ [][NextThreaded]_vars

-----------------------------------------------------------------------------
(* Properties *)

Has(factors, code) == \E i \in 1..Len(factors) : factors[i] = code

ClockValues == {StartTime + k * TickStep : k \in 0..MaxTicks}

\* the transaction fields as analyze_transaction receives them
Sender == Get(call.data.sender, JStr(<<>>))
Recipient == Get(call.data.recipient, JStr(<<>>))
Amount == Get(call.data.amount, JNum(0))
Timestamp == Get(call.data.timestamp, JNum(0))

HandlerSuccess == pc = "done" /\ call.path = "handler" /\ result.status = "success"

NoSignal == ~ML_AVAILABLE \/ call.sig.fail

\* the handler's answer to the pending request with some fields replaced
HandlerEval(r, a, t) ==
    handler_analyze_transaction(Sender, r, a, Timestamp, t, ML_AVAILABLE, call.sig)

WellFormed(a) ==
    a.kind = "str" /\ Len(a.str) >= MinAddressLen /\ 3 * Cardinality(CharSet(a.str)) >= Len(a.str)

SameLengthOthers ==
    {r \in HandlerAddresses : r.kind = "str" /\ r # Sender /\ Len(r.str) = Len(Sender.str)}

\* C1: every record of a fraud-scoring path (HTTP handler, FraudDetector, CLI)
\* that carries a risk_score, success or error, has 0 <= risk_score <= 1.
C1_ScoreInUnitInterval ==
    (pc = "done" /\ call.path \in {"handler", "detector", "cli"} /\ "risk_score" \in result.keys)
        => (0 <= result.risk_score /\ result.risk_score <= One)

C1_Witness ==
    /\ HandlerSuccess
    /\ result.pre > One
    /\ result.risk_score = One

\* an entry point answered with its failure path (the CLI's "insufficient
\* data" and Flask's 400 are request validation, not failures)
InternalFailure ==
    /\ pc = "done"
    /\ \/ result.status = "raised"
       \/ result.status = "error" /\ ~(call.path = "cli" /\ call.fmt = "short")

\* C2: on an internal failure of any fraud entry point no exception crosses
\* the boundary and the record has status "error", risk_score 0.5,
\* is_suspicious false and an error field.
C2_ErrorRecordShape ==
    InternalFailure =>
        /\ result.status = "error"
        /\ {"error", "risk_score", "is_suspicious", "status"} \subseteq result.keys
        /\ result.risk_score = ErrorScore
        /\ ~result.is_suspicious

\* C3 as stated: a self-transaction reports self_transaction and scores
\* strictly higher than the same transaction sent to any other address of the
\* same length, also at the clamp.
C3_SelfStrictlyHigher ==
    (HandlerSuccess /\ Sender = Recipient) =>
        /\ Has(result.risk_factors, "self_transaction")
        /\ \A r \in SameLengthOthers :
              result.risk_score > HandlerEval(r, Amount, call.at).risk_score

\* C3 amended: a self-transaction reports self_transaction; its risk_score is
\* never lower than that of the same transaction sent to another address of
\* the same length, and strictly higher unless that score is already 1.0.
C3_SelfHigherBelowClamp ==
    (HandlerSuccess /\ Sender = Recipient) =>
        /\ Has(result.risk_factors, "self_transaction")
        /\ \A r \in SameLengthOthers :
              LET other == HandlerEval(r, Amount, call.at).risk_score
              IN  /\ result.risk_score >= other
                  /\ other < One => result.risk_score > other

C3_Witness ==
    /\ HandlerSuccess
    /\ Sender = Recipient
    /\ \E r \in SameLengthOthers : HandlerEval(r, Amount, call.at).risk_score = One
    /\ result.risk_score = One

C4_Case ==
    /\ HandlerSuccess
    /\ Sender = Recipient
    /\ WellFormed(Sender)
    /\ Amount = JNum(10000)
    /\ Timestamp = JNum(0)
    /\ NoSignal

\* C4 as stated: a well-formed address as sender and recipient, amount 1,
\* timestamp 0, no signal: risk_factors is exactly [self_transaction], the
\* score 0.30 and both flags false.
C4_SelfOnly ==
    C4_Case =>
        /\ result.risk_factors = <<"self_transaction">>
        /\ result.risk_score = 30000
        /\ ~result.is_suspicious
        /\ ~result.is_high_risk

\* C4 amended: in that case risk_factors is [self_transaction,
\* suspicious_pattern] (identical addresses differ in 0 <= 2 positions), the
\* score is 0.60 and both flags are false.
C4_SelfAndPattern ==
    C4_Case =>
        /\ result.risk_factors = <<"self_transaction", "suspicious_pattern">>
        /\ result.risk_score = 60000
        /\ ~result.is_suspicious
        /\ ~result.is_high_risk

C4_Witness == C4_Case /\ result.risk_score = 60000

C5_Case ==
    /\ HandlerSuccess
    /\ Sender = JStr(ScenA)
    /\ Recipient = JStr(ScenB)
    /\ Amount = JNum(1000000000)
    /\ Timestamp = JNum(0)
    /\ NoSignal

\* C5 as stated: 0xAAAA.. to 0xBBBB.., amount exactly 100000, timestamp 0,
\* no signal: very_high_amount and suspicious_pattern, score 0.70,
\* is_suspicious true, is_high_risk false.
C5_VeryHighScenario ==
    C5_Case =>
        /\ Has(result.risk_factors, "very_high_amount")
        /\ Has(result.risk_factors, "suspicious_pattern")
        /\ result.risk_score = 70000
        /\ result.is_suspicious
        /\ ~result.is_high_risk

\* C5 amended: in that case risk_factors is [high_amount, suspicious_pattern]
\* (100000 is not > 100000), the score is 0.50 (0.20 + 0.30) and both flags
\* are false.
C5_HighScenario ==
    C5_Case =>
        /\ result.risk_factors = <<"high_amount", "suspicious_pattern">>
        /\ result.risk_score = 50000
        /\ ~result.is_suspicious
        /\ ~result.is_high_risk

C5_Witness == C5_Case /\ Has(result.risk_factors, "high_amount")

\* the number of positions in which two strings differ, a position that only
\* one of them has included
PositionsDiffer(s, r) ==
    DiffCount(s, r) + (IF Len(s) > Len(r) THEN Len(s) - Len(r) ELSE Len(r) - Len(s))

C6_Case ==
    /\ HandlerSuccess
    /\ ToFloat(Amount).ok
    /\ ToFloat(Amount).val > 0
    /\ ToFloat(Amount).val < MicroAmount
    /\ WellFormed(Sender)
    /\ WellFormed(Recipient)
    /\ PositionsDiffer(Sender.str, Recipient.str) > 2
    /\ Timestamp = JNum(0)
    /\ NoSignal

\* C6: 0 < amount < 0.001, two well-formed addresses differing in more than
\* 2 positions, timestamp 0, no signal: risk_factors is exactly
\* [micro_transaction] and the score 0.15.
C6_MicroOnly ==
    C6_Case =>
        /\ result.risk_factors = <<"micro_transaction">>
        /\ result.risk_score = 15000

C6_Witness ==
    /\ C6_Case
    /\ Sender = JStr(D4)
    /\ Recipient = JStr(S10)
    /\ result.risk_score = 15000

TierCodes == {"very_high_amount", "high_amount", "micro_transaction"}

\* an amount in no tier that is round exactly when a is
NeutralAmount(a) == IF a \in RoundAmounts THEN JNum(10000000) ELSE JNum(10000)

\* C7: at most one amount-tier code is reported; amount > 100000 reports
\* very_high_amount and adds exactly 0.40 to the pre-clamp score,
\* 10000 < amount <= 100000 reports high_amount and adds exactly 0.20.
C7_AmountTiers ==
    HandlerSuccess =>
        LET a == IF ToFloat(Amount).ok THEN ToFloat(Amount).val ELSE 0
            base == HandlerEval(Recipient, NeutralAmount(a), call.at).pre
        IN  /\ Cardinality({i \in 1..Len(result.risk_factors) :
                               result.risk_factors[i] \in TierCodes}) <= 1
            /\ a > VeryHighAmount =>
                  /\ Has(result.risk_factors, "very_high_amount")
                  /\ result.pre - base = 40000
            /\ (a > HighAmount /\ a <= VeryHighAmount) =>
                  /\ Has(result.risk_factors, "high_amount")
                  /\ result.pre - base = 20000

C7_Witness ==
    /\ HandlerSuccess
    /\ Amount = JNum(1500000000)
    /\ result.risk_factors[1] = "very_high_amount"
    /\ result.pre > One

\* C8: with timestamp 0 the handler reports no unusual_timing and the timing
\* rule adds nothing to the score, whatever the other fields and the clock.
C8_UnknownTimestampNoTiming ==
    (HandlerSuccess /\ Timestamp = JNum(0)) =>
        /\ ~Has(result.risk_factors, "unusual_timing")
        /\ result.time_risk = 0
        /\ \A t \in ClockValues : HandlerEval(Recipient, Amount, t).pre = result.pre

C8_Witness ==
    /\ HandlerSuccess
    /\ Timestamp = JNum(0)
    /\ call.at > StartTime
    /\ result.pre > 0

\* C9 as stated: the handler's answer to a transaction with a fixed signal is
\* the same at any two points in time.
C9_TimeIndependent ==
    (pc = "done" /\ call.path = "handler" /\ call.fmt = "object") =>
        \A t \in ClockValues : HandlerEval(Recipient, Amount, t) = result

TimingClass(timestamp, t) ==
    IF timestamp.kind # "num" \/ timestamp.num = 0 THEN "none"
    ELSE IF timestamp.num > t + 300 THEN "future"
    ELSE IF t - timestamp.num > 2592000 THEN "stale"
    ELSE "recent"

\* C9 amended: the handler's answer is the same at any two points in time at
\* which the timestamp is classified alike (more than 300 s ahead of the
\* clock, more than 30 days behind it, or neither), and always when the
\* timestamp is 0; with timestamp 0 the time features of extract_features
\* do not depend on the clock either.
C9_SameTimingClassSameAnswer ==
    /\ (pc = "done" /\ call.path = "handler" /\ call.fmt = "object") =>
          \A t \in ClockValues :
              TimingClass(Timestamp, t) = TimingClass(Timestamp, call.at)
                  => HandlerEval(Recipient, Amount, t) = result
    /\ (pc = "done" /\ call.path = "detector" /\ Timestamp = JNum(0)) =>
          \A t \in ClockValues :
              extract_time_features(Timestamp, t) = extract_time_features(Timestamp, call.at)

C9_Witness ==
    /\ HandlerSuccess
    /\ Timestamp = JNum(StartTime + FutureTolerance + 300)
    /\ call.at > StartTime
    /\ TimingClass(Timestamp, StartTime) = TimingClass(Timestamp, call.at)
    /\ Has(result.risk_factors, "unusual_timing")

\* C10: in every success record of the HTTP handler, FraudDetector and the
\* CLI, is_suspicious is exactly (clamped score > 0.6) and is_high_risk is
\* exactly (clamped score > 0.8).
C10_FlagThresholds ==
    (pc = "done" /\ call.path \in {"handler", "detector", "cli"} /\ result.status = "success") =>
        /\ result.is_suspicious <=> (result.clamped > 60000)
        /\ result.is_high_risk <=> (result.clamped > 80000)

\* the place of a code in the handler's order of evaluation (0: not a code
\* of the handler)
EvaluationRank(code) ==
    CASE code \in TierCodes -> 1
      [] code = "self_transaction" -> 2
      [] code = "invalid_address_format" -> 3
      [] code = "suspicious_pattern" -> 4
      [] code = "unusual_timing" -> 5
      [] code = "ml_anomaly_detected" -> 6
      [] OTHER -> 0

\* C11: the handler's risk_factors is a duplicate-free subsequence of the
\* order of evaluation: one amount-tier code, self_transaction,
\* invalid_address_format, suspicious_pattern, unusual_timing, then
\* ml_anomaly_detected.
C11_FactorsInEvaluationOrder ==
    HandlerSuccess =>
        /\ \A i \in 1..Len(result.risk_factors) : EvaluationRank(result.risk_factors[i]) > 0
        /\ \A i, j \in 1..Len(result.risk_factors) :
              i < j => EvaluationRank(result.risk_factors[i]) < EvaluationRank(result.risk_factors[j])

C11_Witness ==
    /\ HandlerSuccess
    /\ Len(result.risk_factors) = 6
    /\ result.risk_factors[3] = "invalid_address_format"
    /\ result.risk_factors[6] = "ml_anomaly_detected"

\* a request in thread t has read part of the shared detector and has not
\* answered yet
Scoring(t) ==
    /\ threads[t].op = "analyze"
    /\ threads[t].pc \in {"decision_function", "predict_proba", "return"}

\* no object that a scoring request has read has been fitted again since
NotMutatedWhileScoring ==
    \A t \in Threads :
        Scoring(t) =>
            /\ det.version.scaler = threads[t].used.scaler
            /\ threads[t].used.anomaly # 0 => det.version.anomaly = threads[t].used.anomaly
            /\ threads[t].used.classifier # 0 => det.version.classifier = threads[t].used.classifier

\* a request that has read all three objects read them from one fit
ScoredFromOneFit ==
    \A t \in Threads :
        (threads[t].op = "analyze" /\ threads[t].pc = "return") =>
            /\ threads[t].used.scaler = threads[t].used.anomaly
            /\ threads[t].used.anomaly = threads[t].used.classifier

\* analyze_transaction trains a detector that starts untrained at most once
OneLazyFit == det.lazyFits <= 1

\* C12: with fraud_detector shared by concurrent requests, under every
\* interleaving of analyze_transaction (lazy training included) and
\* train_model, the scaler and the models are not refitted while a request
\* is scoring, no request scores with objects of different fits, and an
\* initially untrained detector is fitted lazily at most once.
C12_SharedDetectorReadOnly ==
    /\ NotMutatedWhileScoring
    /\ ScoredFromOneFit
    /\ OneLazyFit

\* C13: when the handler's statistical inference is absent or fails, so that
\* it contributes 0, the record carries the rule-only label and confidence:
\* model "rule_based", confidence 0.7.
C13_DegradedLabel ==
    (HandlerSuccess /\ NoSignal) =>
        /\ result.ml_risk = 0
        /\ result.model = "rule_based"
        /\ result.confidence = 70

\* a CLI run on a request with enough elements and a numeric amount, in which
\* the statistical model is missing or fails: ml_services does not import,
\* load_model finds no files, or the inference raises inside
\* FraudDetector.analyze_transaction
CliModelFailure ==
    /\ pc = "done"
    /\ call.path \in {"cli", "simple"}
    /\ call.fmt # "short"
    /\ call.env.logOk
    /\ ToFloat(call.data.amount).ok
    /\ ~call.env.importOk \/ ~call.env.loadOk \/ call.out.fail

\* C14: in predict_fraud_ml and ml_simple.main every failure or absence of
\* the model ends in the rule-based fallback, status success with confidence
\* 0.75 and model "rule_based_enhanced"; a failed inference is never
\* answered as a success of the ML model.
C14_ModelFailureFallsBack ==
    CliModelFailure =>
        /\ result.status = "success"
        /\ result.model = "rule_based_enhanced"
        /\ result.confidence = 75

\* the amount as analyze_transaction scores it: float(amount), 0.0 when that
\* raises
ScoredAmount == IF ToFloat(Amount).ok THEN ToFloat(Amount).val ELSE 0

\* C15: the handler reports micro_transaction only when 0 < amount < 0.001;
\* an amount of exactly 0, an unset amount and a non-numeric amount (coerced
\* to 0.0) do not fire it.
C15_MicroNeedsPositiveAmount ==
    HandlerSuccess =>
        (Has(result.risk_factors, "micro_transaction")
            => (0 < ScoredAmount /\ ScoredAmount < MicroAmount))

\* C16: the handler reports unusual_timing exactly when the timing rule adds
\* a positive amount to the score (future 0.30, stale 0.20, night hour 0.10).
C16_TimingReportedIffPositive ==
    HandlerSuccess =>
        (result.time_risk > 0 <=> Has(result.risk_factors, "unusual_timing"))

\* the UTC hour of a timestamp
UtcHour(ts) == (ts % 86400) \div 3600

\* C17: for a nonzero integer timestamp and the clock T the timing rule adds
\* the first match of: 0.30 if timestamp > T + 300; 0.20 if T - timestamp is
\* more than 30 days; 0.10 if the UTC hour of the timestamp is a night hour
\* (0 to 4); else 0.  Stale and at a night hour gives 0.20.
C17_TimingFirstMatch ==
    (HandlerSuccess /\ Timestamp.kind = "num" /\ Timestamp.num # 0) =>
        LET ts == Timestamp.num
            T == call.at
            future == ts > T + 300
            stale == T - ts > 30 * 86400
            night == UtcHour(ts) \in 0..4
        IN  /\ result.time_risk \in {0, 10000, 20000, 30000}
            /\ result.time_risk = 30000 <=> future
            /\ result.time_risk = 20000 <=> (~future /\ stale)
            /\ result.time_risk = 10000 <=> (~future /\ ~stale /\ night)
            /\ (stale /\ night) => result.time_risk = 20000

C17_Witness ==
    /\ HandlerSuccess
    /\ Timestamp.kind = "num"
    /\ call.at - Timestamp.num > 30 * 86400
    /\ UtcHour(Timestamp.num) = 3
    /\ result.time_risk = 20000

\* clip((1 - a) / 2, 0, 1) of an anomaly score a in thousandths
Normalize(a) ==
    IF a <= -1000 THEN One
    ELSE IF a >= 1000 THEN 0
    ELSE (1000 - a) * 50

\* the handler's answer to the pending request without the statistical path
RuleOnly ==
    handler_analyze_transaction(Sender, Recipient, Amount, Timestamp, call.at, FALSE, NoSig)

\* C18: with the statistical path available and answering, the handler's
\* score before the clamp is the rule-based sum plus 0.3 * normalize(anomaly),
\* normalize(a) = clip((1 - a) / 2, 0, 1); the rule sum enters unscaled.
C18_AdditiveWeighted ==
    (HandlerSuccess /\ ML_AVAILABLE /\ ~call.sig.fail) =>
        result.pre = RuleOnly.pre + (3 * Normalize(call.sig.anomaly)) \div 10

C18_Witness ==
    /\ HandlerSuccess
    /\ ML_AVAILABLE
    /\ ~call.sig.fail
    /\ call.sig.anomaly < -1000
    /\ RuleOnly.pre = 60000
    /\ result.pre = 90000

DetectorSuccess ==
    pc = "done" /\ call.path \in {"detector", "flask"} /\ result.status = "success"

MlCodes == {"ml_anomaly_detected", "anomalous_pattern"}

\* the normalized statistical contribution behind a success record
NormalizedContribution ==
    IF call.path = "handler" THEN result.ml_risk ELSE Normalize(call.out.a)

\* C20: in every success record the ML-origin code (ml_anomaly_detected,
\* anomalous_pattern) appears only when the normalized statistical
\* contribution is above 0.7, and then as the last element of risk_factors.
C20_MlCodeLastAboveThreshold ==
    (HandlerSuccess \/ DetectorSuccess) =>
        \A i \in 1..Len(result.risk_factors) :
            result.risk_factors[i] \in MlCodes =>
                /\ NormalizedContribution > 70000
                /\ i = Len(result.risk_factors)

\* the canonical round amounts: 10, 50, 100, 500, 1000, 5000, 10000, 50000,
\* 100000
CanonicalRoundAmounts ==
    {100000, 500000, 1000000, 5000000, 10000000, 50000000, 100000000, 500000000, 1000000000}

DetectorCall ==
    /\ pc = "done"
    /\ call.path \in {"detector", "flask"}
    /\ call.fmt \in {"object", "ok"}

\* C21: the round-number trigger of the handler's suspicious_pattern (read
\* off two well-formed addresses far apart) and the is_round_amount feature
\* of extract_features both call an amount round exactly when it is one of
\* 10, 50, 100, 500, 1000, 5000, 10000, 50000, 100000.
C21_CanonicalRoundAmounts ==
    /\ HandlerSuccess =>
          (check_suspicious_patterns(JStr(W1), JStr(W2), ScoredAmount)
              <=> ScoredAmount \in CanonicalRoundAmounts)
    /\ (DetectorCall /\ ~extract_features_raises(Amount, Timestamp)) =>
          (is_round_amount(Amount) = 1
              <=> (Truthy(Amount) /\ ToFloat(Amount).val \in CanonicalRoundAmounts))

\* the number of positions at which pattern occurs in s
Occurrences(s, pattern) ==
    Cardinality({j \in 1..(Len(s) - Len(pattern) + 1) :
                    SubSeq(s, j, j + Len(pattern) - 1) = pattern})

\* some 2-character substring occurs at least 3 times, or some 3 consecutive
\* characters are identical, in a string of at least 4 characters
RepeatedPattern(s) ==
    /\ Len(s) >= 4
    /\ \/ \E i \in 1..(Len(s) - 1) : Occurrences(s, SubSeq(s, i, i + 1)) >= 3
       \/ \E i \in 1..(Len(s) - 2) : s[i] = s[i + 1] /\ s[i + 1] = s[i + 2]

\* C22: _has_repeated_pattern is true exactly when the address has at least
\* 4 characters and a 2-character substring occurring 3 times or 3 identical
\* consecutive characters, wherever they are, the last characters and
\* addresses of length 4 or 5 included.
C22_RepeatedPatternAnywhere ==
    (pc = "done" /\ call.path = "detector") =>
        (has_repeated_pattern(ToStr(Sender)) = 1 <=> RepeatedPattern(ToStr(Sender)))

\* C23: a malformed field never aborts the evaluation: with a non-numeric
\* amount, a sender or recipient that is not a string, or a timestamp that
\* is not a number, the handler's analyze_transaction and FraudDetector (its
\* models fitted and answering) return a status=success record, and in the
\* handler the affected rule adds nothing.
C23_MalformedFieldRecovered ==
    /\ (pc = "done" /\ call.path = "handler" /\ call.fmt = "object"
          /\ (~ToFloat(Amount).ok \/ Sender.kind # "str" \/ Recipient.kind # "str"
                \/ Timestamp.kind # "num")) =>
          /\ result.status = "success"
          /\ ~ToFloat(Amount).ok =>
                \A i \in 1..Len(result.risk_factors) : result.risk_factors[i] \notin TierCodes
          /\ Timestamp.kind # "num" => result.time_risk = 0
    /\ (pc = "done" /\ call.path = "detector" /\ fitted = AllFitted /\ ~call.out.fail
          /\ (~ToFloat(Amount).ok \/ Sender.kind # "str" \/ Recipient.kind # "str"
                \/ Timestamp.kind # "num")) =>
          result.status = "success"

PredictSuccess == pc = "done" /\ call.path = "detect_fraud" /\ result.status = "success"

\* C24: in every success record of detect_fraud of the prediction endpoint,
\* on the rule-based path and on the isolation-forest path, is_fraud is true
\* exactly when risk_score > 0.7.
C24_IsFraudThreshold ==
    PredictSuccess => (result.is_fraud <=> result.clamped > 70000)

ScoringPaths == {"handler", "detector", "flask", "detect_fraud"}

\* C25: when a scoring request (HTTP handler, FraudDetector, Flask route,
\* prediction endpoint) has been answered, no model was fitted between its
\* start and its response.
C25_NoFitWhileScoring ==
    (pc = "done" /\ call.path \in ScoringPaths) => result.fits = 0

\* C26: every result that reports both flags, whichever scoring path built
\* it, has is_suspicious whenever it has is_high_risk.
C26_HighRiskImpliesSuspicious ==
    (pc = "done" /\ {"is_suspicious", "is_high_risk"} \subseteq result.keys) =>
        (result.is_high_risk => result.is_suspicious)

C26_Witness ==
    /\ pc = "done"
    /\ call.path = "handler"
    /\ result.status = "success"
    /\ {"is_suspicious", "is_high_risk"} \subseteq result.keys
    /\ result.is_high_risk
    /\ result.is_suspicious

SelfTransaction == HandlerSuccess /\ Sender.kind = "str" /\ Sender = Recipient

\* C27: every handler answer to a transaction whose sender and recipient are
\* the same string reports self_transaction and suspicious_pattern, and its
\* score before the clamp is at least 0.60.
C27_SelfFiresPattern ==
    SelfTransaction =>
        /\ Has(result.risk_factors, "self_transaction")
        /\ Has(result.risk_factors, "suspicious_pattern")
        /\ result.pre >= W_self_transaction + W_suspicious_pattern
        /\ result.pre >= 60000

C27_Witness ==
    /\ SelfTransaction
    /\ WellFormed(Sender)
    /\ ScoredAmount \notin RoundAmounts
    /\ Has(result.risk_factors, "self_transaction")
    /\ Has(result.risk_factors, "suspicious_pattern")
    /\ result.pre = 60000

DetectorAnswered == pc = "done" /\ call.path \in {"detector", "flask"} /\ call.fmt \in {"object", "ok"}

LazyTrainingFailed == DetectorAnswered /\ call.failAt # "none"

\* C28: in every step of the Flask process trained does not go back to
\* false; trained holds only with the scaler and both models fitted; a
\* success answer of analyze_transaction was computed with all three fitted;
\* and a call whose lazy training failed answers with the error record.
C28_DetectorLifecycle ==
    [][/\ trained => trained'
       /\ trained' => fitted' = AllFitted
       /\ (DetectorAnswered' /\ result'.status = "success") => fitted' = AllFitted
       /\ LazyTrainingFailed' => result'.status = "error"]_vars

CliRunEnded == pc = "done" /\ call.path \in {"cli", "cli_main", "simple", "simple_main"}

\* C29: when a run of ml_cli.py or ml_simple.py has ended, whatever stdin
\* held, exactly one JSON object was printed and it has a status field.
C29_OneObjectWithStatus ==
    CliRunEnded => (result.printed = 1 /\ "status" \in result.printed_keys)

FallbackFee == pc = "done" /\ call.path = "predict_fee" /\ ~ML_AVAILABLE

NumericList(data) == \A i \in 1..Len(data) : ToFloat(data[i]).ok \/ ~Truthy(data[i])

\* C30: with the statistical libraries unavailable, predict_fee answers a
\* list of numbers of any length with status success; with fewer than two
\* elements the fee is the base fee 0.001 and both factors are 0.
C30_FallbackFeeAnyLength ==
    (FallbackFee /\ NumericList(call.list)) =>
        /\ result.status = "success"
        /\ Len(call.list) < 2 =>
              /\ result.fee = FeeBase
              /\ result.factors.amount_factor = 0
              /\ result.factors.congestion_factor = 0

====
